---- MODULE Spec2Model ----
(***************************************************************************)
(* The OncoApp API gateway: three route groups (authentication, patients   *)
(* and clinical histories, recommendation) that forward each inbound       *)
(* request to a backend over HTTP and relay the answer.                    *)
(*                                                                         *)
(* A handler runs from the arrival of its request to its first suspension  *)
(* on network I/O (the outbound call), and from the backend's answer to    *)
(* the response; the event loop runs one such step at a time.              *)
(***************************************************************************)
EXTENDS Integers, Sequences, FiniteSets, TLC

VARIABLES
  limit,     \* how many requests the server handles at once
  inflight,  \* request id -> the request suspended on its outbound call
  clients,   \* the httpx.AsyncClient objects that are open
  out        \* what the step just taken emitted: an outbound call or a response

vars == <<limit, inflight, clients, out>>

(***************************************************************************)
(* Bounds of the model.                                                    *)
(***************************************************************************)
MaxInFlight == 2

(***************************************************************************)
(* Values.                                                                 *)
(***************************************************************************)
NoToken == "<no credential>"
Tokens == {NoToken, "tok"}

Omitted == "<omitted>"

\* The text of a backend response body.  "doc" stands for a JSON document of
\* exactly the shape the route declares as its response_model, "doc+x" for
\* that document with one extra member; {"x":1} is a JSON object of no
\* declared shape and "not found" is not JSON.
BackendTexts == {"doc", "doc+x", "{\"x\":1}", "not found"}

BackendStatuses == {200, 201, 204, 404, 503}

TransportErrors == {"ConnectError: connection refused"}

NoReply == [kind |-> "none", status |-> 0, text |-> ""]

HttpReply(status, text) == [kind |-> "http", status |-> status, text |-> text]

RequestError(err) == [kind |-> "error", status |-> 0, text |-> err]

Replies ==
  {HttpReply(s, t) : s \in BackendStatuses, t \in BackendTexts}
    \cup {RequestError(e) : e \in TransportErrors}

\* The replies used when several requests are in flight together.
ConcReplies ==
  {HttpReply(200, "doc"), HttpReply(404, "not found")}
    \cup {RequestError(e) : e \in TransportErrors}

(***************************************************************************)
(* Bodies of gateway responses.                                            *)
(***************************************************************************)
JsonBody(text) == [tag |-> "json", text |-> text, err |-> ""]

MessageBody(text) == [tag |-> "message", text |-> text, err |-> ""]

DetailBody(text, err) == [tag |-> "detail", text |-> text, err |-> err]

EmptyBody == [tag |-> "empty", text |-> "", err |-> ""]

ValidationBody == [tag |-> "validation", text |-> "", err |-> ""]

ServerErrorBody == [tag |-> "plain", text |-> "Internal Server Error", err |-> ""]

(***************************************************************************)
(* Outcomes of a piece of handler code.                                    *)
(***************************************************************************)
Return(value) == [tag |-> "return", status |-> 200, value |-> value]

ReturnNone == [tag |-> "none", status |-> 200, value |-> EmptyBody]

\* raise HTTPException(status_code=status, detail=text + err)
Raise(status, text, err) ==
  [tag |-> "raise", status |-> status, value |-> DetailBody(text, err)]

\* any exception no handler is registered for
Crash == [tag |-> "crash", status |-> 500, value |-> ServerErrorBody]

\* fastapi's RequestValidationError, raised before the handler is entered
Invalid == [tag |-> "invalid", status |-> 422, value |-> ValidationBody]

(***************************************************************************)
(* The routes: what each decorator and signature declares.                 *)
(*   security    the handler takes token = Depends(security)               *)
(*   schema      "manual": the handler builds the pydantic model itself;   *)
(*               "required" / "optional": a body parameter fastapi         *)
(*               validates before the handler is entered                   *)
(*   status_code the status the decorator sets for a returned value        *)
(*   model       the decorator's response_model                            *)
(***************************************************************************)
RouteDecl(group, verb, path, security, schema, status_code, model) ==
  [group |-> group, verb |-> verb, path |-> path, security |-> security,
   schema |-> schema, status_code |-> status_code, model |-> model]

AuthRoutes ==
  {"register", "login", "get_me", "list_users", "list_medicos",
   "get_user_medico", "update_user_medico", "search_user_medico",
   "search_flexible"}

PatientRoutes ==
  {"list_patients", "create_patient", "get_patient", "update_patient",
   "delete_patient", "create_clinical_history", "get_clinical_history",
   "update_clinical_history", "delete_clinical_history",
   "get_histories_by_document"}

RecommendationRoutes == {"root", "health_check", "predict_and_update_treatment"}

RouteNames == AuthRoutes \cup PatientRoutes \cup RecommendationRoutes

Route(name) ==
  CASE name = "register" ->
         RouteDecl("auth", "POST", "/register", FALSE, "manual", 201, "dict")
    [] name = "login" ->
         RouteDecl("auth", "POST", "/login", FALSE, "manual", 200, "schema")
    [] name = "get_me" ->
         RouteDecl("auth", "GET", "/me", TRUE, "none", 200, "schema")
    [] name = "list_users" ->
         RouteDecl("auth", "GET", "/admin/users", TRUE, "none", 200, "schema")
    [] name = "list_medicos" ->
         RouteDecl("auth", "GET", "/admin/medicos", TRUE, "none", 200, "schema")
    [] name = "get_user_medico" ->
         RouteDecl("auth", "GET", "/admin/user-medico/{user_id}", TRUE, "none",
                   200, "schema")
    [] name = "update_user_medico" ->
         RouteDecl("auth", "PUT", "/admin/user-medico/{user_id}", TRUE, "manual",
                   200, "schema")
    [] name = "search_user_medico" ->
         RouteDecl("auth", "GET", "/search", TRUE, "none", 200, "schema")
    [] name = "search_flexible" ->
         RouteDecl("auth", "GET", "/search/flexible", TRUE, "none", 200, "schema")
    [] name = "list_patients" ->
         RouteDecl("patient", "GET", "/patients/", TRUE, "none", 200, "schema")
    [] name = "create_patient" ->
         RouteDecl("patient", "POST", "/patients/", TRUE, "required", 201, "schema")
    [] name = "get_patient" ->
         RouteDecl("patient", "GET", "/patients/{document_id}", TRUE, "none",
                   200, "schema")
    [] name = "update_patient" ->
         RouteDecl("patient", "PATCH", "/patients/{document_id}", TRUE, "optional",
                   200, "schema")
    [] name = "delete_patient" ->
         RouteDecl("patient", "DELETE", "/patients/{document_id}", TRUE, "none",
                   204, "none")
    [] name = "create_clinical_history" ->
         RouteDecl("patient", "POST", "/clinical_histories/", TRUE, "required",
                   201, "schema")
    [] name = "get_clinical_history" ->
         RouteDecl("patient", "GET", "/clinical_histories/{history_id}", TRUE,
                   "none", 200, "schema")
    [] name = "update_clinical_history" ->
         RouteDecl("patient", "PATCH", "/clinical_histories/{history_id}", TRUE,
                   "optional", 200, "schema")
    [] name = "delete_clinical_history" ->
         RouteDecl("patient", "DELETE", "/clinical_histories/{history_id}", TRUE,
                   "none", 204, "none")
    [] name = "get_histories_by_document" ->
         RouteDecl("patient", "GET", "/clinical_histories/document/{document_id}",
                   TRUE, "none", 200, "schema")
    [] name = "root" ->
         RouteDecl("recommendation", "GET", "/", FALSE, "none", 200, "none")
    [] name = "health_check" ->
         RouteDecl("recommendation", "GET", "/health", FALSE, "none", 200, "none")
    [] name = "predict_and_update_treatment" ->
         RouteDecl("recommendation", "POST", "/api/v1/predict-and-update", TRUE,
                   "required", 200, "schema")

(***************************************************************************)
(* Inbound requests.  body: "absent" (no JSON body), "valid" (JSON that    *)
(* conforms to the route's input model), "invalid" (JSON that does not).   *)
(* query maps each query parameter the route declares to the text the      *)
(* caller gave, or to Omitted.                                             *)
(***************************************************************************)
QueryValues(name) ==
  CASE name = "page" -> {Omitted, "2", "x"}
    [] name = "page_size" -> {Omitted, "10"}
    [] OTHER -> {Omitted, "v"}

QueryNames(route) ==
  CASE route = "list_patients" -> {"page", "page_size"}
    [] route = "search_user_medico" -> {"email", "tipo_doc", "doc"}
    [] route = "search_flexible" -> {"q"}
    [] OTHER -> {}

Queries(route) ==
  {q \in [QueryNames(route) -> {Omitted, "2", "10", "x", "v"}] :
     \A k \in QueryNames(route) : q[k] \in QueryValues(k)}

BodiesOf(route) ==
  IF Route(route).schema = "none" THEN {"absent"} ELSE {"absent", "valid", "invalid"}

TokensOf(route) ==
  IF Route(route).group = "recommendation" /\ ~Route(route).security
    THEN {NoToken} ELSE Tokens

RequestsOf(route) ==
  {[route |-> route, token |-> t, body |-> b, query |-> q] :
     t \in TokensOf(route), b \in BodiesOf(route), q \in Queries(route)}

Requests == UNION {RequestsOf(route) : route \in RouteNames}

\* The requests used when several are in flight together.
ConcRequests ==
  {req \in Requests :
     /\ req.token # NoToken \/ ~Route(req.route).security
     /\ req.body # "invalid"
     /\ \A k \in DOMAIN req.query : req.query[k] \notin {Omitted, "x"}}

\* request.query_params: the parameters the caller gave, as given
query_params(request) ==
  {<<k, request.query[k]>> :
     k \in {n \in DOMAIN request.query : request.query[n] # Omitted}}

(***************************************************************************)
(* Conversions.                                                            *)
(***************************************************************************)
\* pydantic's reading of an int query parameter
IsInt(text) == text \in {"2", "10"}

ParseInt(text) == CASE text = "2" -> 2 [] text = "10" -> 10

\* str() of an int
IntToStr(n) == CASE n = 2 -> "2" [] n = 10 -> "10"

\* httpx renders a None parameter value as the empty string and keeps the key
primitive_value_to_str(value) == IF value = Omitted THEN "" ELSE value

\* httpx encodes every key of a params dict
EncodeParams(dict) == {<<k, primitive_value_to_str(dict[k])>> : k \in DOMAIN dict}

\* response.json() succeeds
IsJson(text) == text \in {"doc", "doc+x", "{\"x\":1}"}

(***************************************************************************)
(* Outbound calls.                                                         *)
(***************************************************************************)
NoJson == "<no json>"

\* auth: the credential of the authorization header sent; params: the query
\* pairs sent; json: the JSON body sent
Call(verb, service, path, auth, params, json) ==
  [verb |-> verb, service |-> service, path |-> path, auth |-> auth,
   params |-> params, json |-> json]

NoCall == Call("", "", "", NoToken, {}, NoJson)

\* How far a handler got before it first suspends: it failed "before" a client
\* was acquired, it failed "within" the client's scope, or it "sent" a call.
Before(result) == [stage |-> "before", result |-> result, call |-> NoCall]

Within(result) == [stage |-> "within", result |-> result, call |-> NoCall]

Sent(call) == [stage |-> "sent", result |-> Crash, call |-> call]

\* A params argument: None, or a dict from names to values (Omitted is None)
NoParams == [given |-> FALSE, dict |-> <<>>]

Params(dict) == [given |-> TRUE, dict |-> dict]

\* Python's truth value of a params argument: None and {} are false
Truthy(params) == params.given /\ DOMAIN params.dict # {}

(***************************************************************************)
(* auth_routes.py                                                          *)
(***************************************************************************)
\* forward_request without its final else: every method is sent
forward_request_any_verb(method, endpoint, request, requires_auth, json_data, params, token) ==
  LET authorization == IF requires_auth THEN token ELSE request.token
      query == IF Truthy(params) THEN EncodeParams(params.dict)
               ELSE query_params(request)
      data == IF json_data # NoJson THEN json_data ELSE request.body
  IN  IF requires_auth /\ token = NoToken
        THEN Before(Raise(401, "Token de autorizacion faltante", ""))
      ELSE IF method = "GET"
        THEN Sent(Call("GET", "AUTH_SERVICE_URL", endpoint, authorization, query,
                       NoJson))
      ELSE IF data = "absent"
        THEN Within(Crash)
      ELSE Sent(Call(method, "AUTH_SERVICE_URL", endpoint, authorization, {}, data))

\* forward_request up to the outbound call.  The headers are the inbound
\* ones; with requires_auth the authorization header is the token's.
forward_request(method, endpoint, request, requires_auth, json_data, params, token) ==
  LET authorization == IF requires_auth THEN token ELSE request.token
      query == IF Truthy(params) THEN EncodeParams(params.dict)
               ELSE query_params(request)
      data == IF json_data # NoJson THEN json_data ELSE request.body
  IN  IF requires_auth /\ token = NoToken
        THEN Before(Raise(401, "Token de autorizacion faltante", ""))
      ELSE IF method = "GET"
        THEN Sent(Call("GET", "AUTH_SERVICE_URL", endpoint, authorization, query,
                       NoJson))
      ELSE IF method \in {"POST", "PUT"}
        THEN IF data = "absent"
               THEN Within(Crash)   \* request.json() raises JSONDecodeError
               ELSE Sent(Call(method, "AUTH_SERVICE_URL", endpoint, authorization,
                              {}, data))
      ELSE Within(Raise(405, "Metodo no permitido", ""))

\* forward_request from the backend's answer on: the response, or 502
forward_request_result(reply) ==
  IF reply.kind = "error"
    THEN Raise(502, "Error al contactar el servicio de autenticacion: ", reply.text)
    ELSE Return(reply)

\* handle_response returning the text where it should parse the JSON
handle_response_text(response) ==
  IF response.status >= 400
    THEN Raise(response.status, response.text, "")
    ELSE Return(MessageBody(response.text))

handle_response(response) ==
  IF response.status >= 400
    THEN Raise(response.status, response.text, "")
  ELSE IF IsJson(response.text)
    THEN Return(JsonBody(response.text))
  ELSE Return(MessageBody(response.text))

\* body = await request.json(); validated = Model(**body): either raises an
\* exception that is not fastapi's RequestValidationError, the only one
\* validation_exception_handler is written for
ManualValidation(request) == request.body \in {"absent", "invalid"}

(***************************************************************************)
(* fastapi: validation of the declared parameters before the handler, and  *)
(* the rendering of what the handler returns or raises.                    *)
(***************************************************************************)
RequestValidationError(request) ==
  LET decl == Route(request.route)
      q == request.query
  IN  \/ decl.schema = "required" /\ request.body # "valid"
      \/ decl.schema = "optional" /\ request.body = "invalid"
      \/ request.route = "list_patients"
           /\ \E k \in DOMAIN q : q[k] # Omitted /\ ~IsInt(q[k])
      \/ request.route = "search_flexible" /\ q["q"] = Omitted

\* HTTPBearer(auto_error=False): the credential, or None
security(request) == request.token

\* The value a response_model lets through: the declared members only, or a
\* ResponseValidationError.
ApplyResponseModel(model, value) ==
  CASE model = "none" -> value
    [] model = "dict" -> value
    [] model = "schema" ->
         IF value.tag = "json" /\ value.text \in {"doc", "doc+x"}
           THEN JsonBody("doc")
           ELSE ServerErrorBody

BodyAllowed(status) == status >= 200 /\ status \notin {204, 205, 304}

\* The response the caller gets for what the handler did.
Respond(route, result) ==
  LET decl == Route(route)
      shown == ApplyResponseModel(decl.model, result.value)
  IN  CASE result.tag = "raise" ->
             [status |-> result.status,
              body |-> IF BodyAllowed(result.status) THEN result.value ELSE EmptyBody]
        [] result.tag \in {"crash", "invalid"} ->
             [status |-> result.status, body |-> result.value]
        [] result.tag = "none" ->
             [status |-> decl.status_code, body |-> EmptyBody]
        [] result.tag = "return" ->
             IF shown = ServerErrorBody
               THEN [status |-> 500, body |-> ServerErrorBody]
               ELSE [status |-> decl.status_code,
                     body |-> IF BodyAllowed(decl.status_code) THEN shown
                              ELSE EmptyBody]

(***************************************************************************)
(* patient_routes.py: every handler sends its call with no check of the    *)
(* token and no try around it, then tests the status.                      *)
(***************************************************************************)
\* headers={"authorization": f"Bearer {token.credentials}"} if token else {}
PatientCall(verb, path, token, params, json) ==
  Sent(Call(verb, "PATIENT_SERVICE_URL", path, token, params, json))

\* the statuses a patient handler does not turn into an HTTPException
OkStatuses(route) ==
  CASE route \in {"create_patient", "create_clinical_history"} -> {200, 201}
    [] route \in {"delete_patient", "delete_clinical_history"} -> {200, 204}
    [] OTHER -> {200}

\* a patient handler from the backend's answer on
patient_result(route, reply) ==
  IF reply.kind = "error"
    THEN Crash                       \* httpx.RequestError is not caught
  ELSE IF reply.status \notin OkStatuses(route)
    THEN Raise(reply.status, reply.text, "")
  ELSE IF route \in {"delete_patient", "delete_clinical_history"}
    THEN ReturnNone
  ELSE IF IsJson(reply.text)
    THEN Return(JsonBody(reply.text))
  ELSE Crash                         \* response.json() raises

(***************************************************************************)
(* recommendation_routes.py.  Its router is included before main.py        *)
(* declares its own GET /, so root is the handler that serves GET /.       *)
(***************************************************************************)
\* response.raise_for_status() raises httpx.HTTPStatusError
raise_for_status(reply) == reply.status < 200 \/ reply.status > 299

\* root and health_check from the backend's answer on
probe_result(reply) ==
  IF reply.kind = "error"
    THEN Raise(502, "Error de conexion: ", reply.text)
  ELSE IF raise_for_status(reply)
    THEN Crash                       \* HTTPStatusError is not a RequestError
  ELSE IF IsJson(reply.text)
    THEN Return(JsonBody(reply.text))
  ELSE Crash

\* predict_and_update_treatment from the backend's answer on
predict_result(reply) ==
  IF reply.kind = "error"
    THEN Raise(502, "Error al conectar con el servicio de prediccion: ", reply.text)
  ELSE IF reply.status # 200
    THEN Raise(reply.status, reply.text, "")
  ELSE IF IsJson(reply.text)
    THEN Return(JsonBody(reply.text))
  ELSE Crash

(***************************************************************************)
(* The state machine.                                                      *)
(***************************************************************************)
NoRequest == [route |-> "", token |-> NoToken, body |-> "absent", query |-> <<>>]

Event(kind, rid, req, client, calls, call, reply, status, body) ==
  [kind |-> kind, rid |-> rid, req |-> req, client |-> client, calls |-> calls,
   call |-> call, reply |-> reply, status |-> status, body |-> body]

NoEvent == Event("none", 0, NoRequest, 0, 0, NoCall, NoReply, 0, EmptyBody)

\* async with httpx.AsyncClient() as client: a new client object
AsyncClientEnter(open) ==
  CHOOSE c \in 1..(Cardinality(open) + 1) :
    c \notin open /\ \A d \in 1..(c - 1) : d \in open

\* a client that is never closed
AsyncClientLeak(open, client) == open

\* leaving the async with block closes the client
AsyncClientExit(open, client) == open \ {client}

RequestIds == 1..MaxInFlight

FreeId == CHOOSE r \in RequestIds : r \notin DOMAIN inflight

\* The handler of req runs up to its first suspension.
Begin(req, start) ==
  LET client == AsyncClientEnter(clients)
      rid == FreeId
  IN  /\ out = NoEvent
      /\ Cardinality(DOMAIN inflight) < limit
      /\ limit' = limit
      /\ CASE start.stage = "sent" ->
                /\ inflight' = inflight @@ (rid :> [req |-> req, client |-> client,
                                                    calls |-> 1])
                /\ clients' = clients \cup {client}
                /\ out' = Event("call", rid, req, client, 1, start.call, NoReply,
                                0, EmptyBody)
           [] start.stage = "within" ->
                /\ inflight' = inflight
                /\ clients' = AsyncClientExit(clients \cup {client}, client)
                /\ out' = Event("response", 0, req, client, 0, NoCall, NoReply,
                                Respond(req.route, start.result).status,
                                Respond(req.route, start.result).body)
           [] start.stage = "before" ->
                /\ inflight' = inflight
                /\ clients' = clients
                /\ out' = Event("response", 0, req, 0, 0, NoCall, NoReply,
                                Respond(req.route, start.result).status,
                                Respond(req.route, start.result).body)

\* The handler of request rid runs from the backend's answer to its response.
Finish(rid, reply, response) ==
  LET it == inflight[rid]
  IN  /\ out = NoEvent
      /\ limit' = limit
      /\ inflight' = [r \in DOMAIN inflight \ {rid} |-> inflight[r]]
      /\ clients' = AsyncClientExit(clients, it.client)
      /\ out' = Event("response", rid, it.req, it.client, it.calls, NoCall, reply,
                      response.status, response.body)

\* A handler of auth_routes.py that validates its body itself.
AuthBody(req, method, endpoint, requires_auth) ==
  IF ManualValidation(req)
    THEN Begin(req, Before(Crash))
    ELSE Begin(req, forward_request(method, endpoint, req, requires_auth, req.body,
                                    NoParams, security(req)))

\* A handler fastapi enters only with valid parameters.
Validated(req, start) ==
  IF RequestValidationError(req) THEN Begin(req, Before(Invalid)) ELSE Begin(req, start)

register(req) ==
  /\ req.route = "register"
  /\ AuthBody(req, "POST", "/register", FALSE)

login(req) ==
  /\ req.route = "login"
  /\ AuthBody(req, "POST", "/login", FALSE)

get_me(req) ==
  /\ req.route = "get_me"
  /\ Begin(req, forward_request("GET", "/me", req, TRUE, NoJson, NoParams,
                                security(req)))

list_users(req) ==
  /\ req.route = "list_users"
  /\ Begin(req, forward_request("GET", "/admin/users", req, TRUE, NoJson, NoParams,
                                security(req)))

list_medicos(req) ==
  /\ req.route = "list_medicos"
  /\ Begin(req, forward_request("GET", "/admin/medicos", req, TRUE, NoJson, NoParams,
                                security(req)))

get_user_medico(req) ==
  /\ req.route = "get_user_medico"
  /\ Begin(req, forward_request("GET", "/admin/user-medico/{user_id}", req, TRUE,
                                NoJson, NoParams, security(req)))

update_user_medico(req) ==
  /\ req.route = "update_user_medico"
  /\ AuthBody(req, "PUT", "/admin/user-medico/{user_id}", TRUE)

search_user_medico(req) ==
  /\ req.route = "search_user_medico"
  /\ Begin(req, forward_request("GET", "/search", req, TRUE, NoJson,
                                Params(req.query), security(req)))

search_flexible(req) ==
  /\ req.route = "search_flexible"
  /\ Validated(req, forward_request("GET", "/search/flexible", req, TRUE, NoJson,
                                    Params(req.query), security(req)))

\* params = {}; a key for each parameter that is not None, its value the int
list_patients_params(query) ==
  [k \in {n \in DOMAIN query : query[n] # Omitted} |-> IntToStr(ParseInt(query[k]))]

list_patients(req) ==
  /\ req.route = "list_patients"
  /\ Validated(req, PatientCall("GET", "/patients", security(req),
                                EncodeParams(list_patients_params(req.query)), NoJson))

create_patient(req) ==
  /\ req.route = "create_patient"
  /\ Validated(req, PatientCall("POST", "/patients", security(req), {}, req.body))

get_patient(req) ==
  /\ req.route = "get_patient"
  /\ Validated(req, PatientCall("GET", "/patients/{document_id}", security(req), {},
                                NoJson))

\* patient_update is None when the request has no body, and None has no dict()
update_patient(req) ==
  /\ req.route = "update_patient"
  /\ Validated(req, IF req.body = "absent" THEN Within(Crash)
                    ELSE PatientCall("PATCH", "/patients/{document_id}",
                                     security(req), {}, req.body))

delete_patient(req) ==
  /\ req.route = "delete_patient"
  /\ Validated(req, PatientCall("DELETE", "/patients/{document_id}", security(req),
                                {}, NoJson))

create_clinical_history(req) ==
  /\ req.route = "create_clinical_history"
  /\ Validated(req, PatientCall("POST", "/clinical_histories", security(req), {},
                                req.body))

get_clinical_history(req) ==
  /\ req.route = "get_clinical_history"
  /\ Validated(req, PatientCall("GET", "/clinical_histories/{history_id}",
                                security(req), {}, NoJson))

update_clinical_history(req) ==
  /\ req.route = "update_clinical_history"
  /\ Validated(req, IF req.body = "absent" THEN Within(Crash)
                    ELSE PatientCall("PATCH", "/clinical_histories/{history_id}",
                                     security(req), {}, req.body))

delete_clinical_history(req) ==
  /\ req.route = "delete_clinical_history"
  /\ Validated(req, PatientCall("DELETE", "/clinical_histories/{history_id}",
                                security(req), {}, NoJson))

get_histories_by_document(req) ==
  /\ req.route = "get_histories_by_document"
  /\ Validated(req, PatientCall("GET", "/clinical_histories/document/{document_id}",
                                security(req), {}, NoJson))

root(req) ==
  /\ req.route = "root"
  /\ Begin(req, Sent(Call("GET", "RECOMMENDATION_SERVICE_URL", "/", NoToken, {},
                          NoJson)))

health_check(req) ==
  /\ req.route = "health_check"
  /\ Begin(req, Sent(Call("GET", "RECOMMENDATION_SERVICE_URL", "/health", NoToken, {},
                          NoJson)))

predict_and_update_treatment(req) ==
  /\ req.route = "predict_and_update_treatment"
  /\ Validated(req, Sent(Call("POST", "RECOMMENDATION_SERVICE_URL",
                              "/api/v1/predict-and-update", security(req), {},
                              req.body)))

(***************************************************************************)
(* The backend answers, or the transport fails, and the handler resumes.   *)
(***************************************************************************)
auth_result(reply) ==
  IF forward_request_result(reply).tag = "raise"
    THEN forward_request_result(reply)
    ELSE handle_response(forward_request_result(reply).value)

auth_response(rid, reply) ==
  /\ rid \in DOMAIN inflight
  /\ inflight[rid].req.route \in AuthRoutes
  /\ Finish(rid, reply, Respond(inflight[rid].req.route, auth_result(reply)))

patient_response(rid, reply) ==
  /\ rid \in DOMAIN inflight
  /\ inflight[rid].req.route \in PatientRoutes
  /\ Finish(rid, reply,
            Respond(inflight[rid].req.route,
                    patient_result(inflight[rid].req.route, reply)))

probe_response(rid, reply) ==
  /\ rid \in DOMAIN inflight
  /\ inflight[rid].req.route \in {"root", "health_check"}
  /\ Finish(rid, reply, Respond(inflight[rid].req.route, probe_result(reply)))

predict_response(rid, reply) ==
  /\ rid \in DOMAIN inflight
  /\ inflight[rid].req.route = "predict_and_update_treatment"
  /\ Finish(rid, reply, Respond(inflight[rid].req.route, predict_result(reply)))

\* The emitted call or response leaves the process.
Emit ==
  /\ out # NoEvent
  /\ out' = NoEvent
  /\ UNCHANGED <<limit, inflight, clients>>

(***************************************************************************)
(* forward_request used on its own, with any arguments.                    *)
(***************************************************************************)
Methods == {"GET", "POST", "PUT", "PATCH", "DELETE", "HEAD", "OPTIONS"}

\* token: the inbound authorization header; credentials: the token argument
ForwardUses ==
  {[route |-> "forward_request", token |-> h, body |-> b, query |-> [q |-> v],
    method |-> m, requires_auth |-> a, json_data |-> j, params |-> p,
    credentials |-> t] :
     h \in {NoToken}, b \in {"absent", "valid"}, v \in {Omitted, "v"},
     m \in Methods, a \in BOOLEAN, j \in {NoJson, "valid"},
     p \in {NoParams, Params([q |-> "w"])}, t \in Tokens}

\* The uses made when several requests are in flight together.
ConcForwardUses ==
  {use \in ForwardUses :
     /\ use.body = "valid" /\ use.query["q"] = "v" /\ use.json_data = "valid"
     /\ use.params = NoParams /\ use.requires_auth /\ use.credentials # NoToken}

forward_request_call(use) ==
  /\ use.route = "forward_request"
  /\ Begin(use, forward_request(use.method, "/endpoint", use, use.requires_auth,
                                use.json_data, use.params, use.credentials))

\* what the caller of forward_request gets: the httpx response, or the 502
forward_request_return(rid, reply) ==
  /\ rid \in DOMAIN inflight
  /\ inflight[rid].req.route = "forward_request"
  /\ Finish(rid, reply,
            IF forward_request_result(reply).tag = "raise"
              THEN Respond("forward_request", forward_request_result(reply))
              ELSE [status |-> reply.status,
                    body |-> [tag |-> "response", text |-> reply.text, err |-> ""]])

(***************************************************************************)
(* Spec: the gateway serving one request at a time, over every request and *)
(* every backend answer of the model.                                      *)
(***************************************************************************)
Init ==
  /\ limit = 1
  /\ inflight = <<>>
  /\ clients = {}
  /\ out = NoEvent

Next ==
  \/ \E req \in Requests :
       \/ register(req)
       \/ login(req)
       \/ get_me(req)
       \/ list_users(req)
       \/ list_medicos(req)
       \/ get_user_medico(req)
       \/ update_user_medico(req)
       \/ search_user_medico(req)
       \/ search_flexible(req)
       \/ list_patients(req)
       \/ create_patient(req)
       \/ get_patient(req)
       \/ update_patient(req)
       \/ delete_patient(req)
       \/ create_clinical_history(req)
       \/ get_clinical_history(req)
       \/ update_clinical_history(req)
       \/ delete_clinical_history(req)
       \/ get_histories_by_document(req)
       \/ root(req)
       \/ health_check(req)
       \/ predict_and_update_treatment(req)
  \/ \E rid \in RequestIds, reply \in Replies :
       \/ auth_response(rid, reply)
       \/ patient_response(rid, reply)
       \/ probe_response(rid, reply)
       \/ predict_response(rid, reply)
  \/ Emit

Spec == Init /\ [][Next]_vars

(***************************************************************************)
(* SpecConc: up to MaxInFlight requests in flight together.                *)
(***************************************************************************)
InitConc ==
  /\ limit = MaxInFlight
  /\ inflight = <<>>
  /\ clients = {}
  /\ out = NoEvent

NextConc ==
  \/ \E req \in ConcRequests :
       \/ register(req)
       \/ login(req)
       \/ get_me(req)
       \/ list_users(req)
       \/ list_medicos(req)
       \/ get_user_medico(req)
       \/ update_user_medico(req)
       \/ search_user_medico(req)
       \/ search_flexible(req)
       \/ list_patients(req)
       \/ create_patient(req)
       \/ get_patient(req)
       \/ update_patient(req)
       \/ delete_patient(req)
       \/ create_clinical_history(req)
       \/ get_clinical_history(req)
       \/ update_clinical_history(req)
       \/ delete_clinical_history(req)
       \/ get_histories_by_document(req)
       \/ root(req)
       \/ health_check(req)
       \/ predict_and_update_treatment(req)
  \/ \E use \in ConcForwardUses : forward_request_call(use)
  \/ \E rid \in RequestIds, reply \in ConcReplies :
       \/ auth_response(rid, reply)
       \/ patient_response(rid, reply)
       \/ probe_response(rid, reply)
       \/ predict_response(rid, reply)
       \/ forward_request_return(rid, reply)
  \/ Emit

SpecConc == InitConc /\ [][NextConc]_vars

(***************************************************************************)
(* SpecFwd: forward_request applied to every method and argument of the    *)
(* model, one use at a time.                                               *)
(***************************************************************************)
NextFwd ==
  \/ \E use \in ForwardUses : forward_request_call(use)
  \/ \E rid \in RequestIds, reply \in Replies : forward_request_return(rid, reply)
  \/ Emit

SpecFwd == Init /\ [][NextFwd]_vars

(***************************************************************************)
(* What the step just taken emitted.                                       *)
(***************************************************************************)
Called == out.kind = "call"

Responded == out.kind = "response"

\* the backend answered the request that is now responded to
Answered == Responded /\ out.reply.kind = "http"

\* the parameters and the body of the request are those its route declares
PassesValidation(req) ==
  /\ ~RequestValidationError(req)
  /\ Route(req.route).schema = "manual" => req.body = "valid"

\* The routes section 6 of the specification lists as bearer-required.
BearerRequired(route) ==
  route \in (AuthRoutes \ {"register", "login"}) \cup PatientRoutes
              \cup {"predict_and_update_treatment"}

(***************************************************************************)
(* C1: on every bearer-required route a request without a bearer           *)
(* credential is answered 401 and no outbound call is issued for it        *)
(* (read of the requests that are otherwise well formed).                  *)
(***************************************************************************)
C1_NoCredentialIs401 ==
  /\ Called /\ BearerRequired(out.req.route) => out.req.token # NoToken
  /\ Responded /\ BearerRequired(out.req.route) /\ out.req.token = NoToken
               /\ PassesValidation(out.req)
       => out.status = 401 /\ out.calls = 0

(***************************************************************************)
(* C2: on every route a backend status >= 400 is relayed: the response has *)
(* that status and the backend's raw body as its detail.                   *)
(***************************************************************************)
C2_BackendErrorRelayed ==
  Answered /\ out.reply.status >= 400
    => out.status = out.reply.status /\ out.body = DetailBody(out.reply.text, "")

(***************************************************************************)
(* C3: on every route a transport failure of the outbound call is answered *)
(* 502 with a detail that contains the error's text.                       *)
(***************************************************************************)
C3_TransportFailureIs502 ==
  Responded /\ out.reply.kind = "error"
    => out.status = 502 /\ out.body.tag = "detail" /\ out.body.err = out.reply.text

FitsResponseModel(route, text) ==
  \/ route \in {"root", "health_check", "register",
                "delete_patient", "delete_clinical_history"}
  \/ text = "doc"

C5_InvalidPayloadIs422 ==
  /\ Called /\ Route(out.req.route).schema # "none" => out.req.body # "invalid"
  /\ Responded /\ Route(out.req.route).schema # "none" /\ out.req.body = "invalid"
       => out.status = 422 /\ out.calls = 0

(***************************************************************************)
(* C6.  A use of forward_request is ready when its credential check passes *)
(* and, for a method that sends a JSON body, there is a body to send.      *)
(***************************************************************************)
Ready(use) ==
  /\ ~(use.requires_auth /\ use.credentials = NoToken)
  /\ use.method \in {"POST", "PUT"} => use.json_data # NoJson \/ use.body # "absent"

\* forward_request has run up to its call or its failure
Forwarded ==
  out.req.route = "forward_request" /\ (Called \/ (Responded /\ out.reply = NoReply))

PassesAuthorization(req) == BearerRequired(req.route) => req.token # NoToken

C7_ExactlyOneCall ==
  /\ Called => out.calls = 1
  /\ Responded => /\ out.calls <= 1
                  /\ out.rid \notin DOMAIN inflight
                  /\ PassesValidation(out.req) /\ PassesAuthorization(out.req)
                       => out.calls = 1

(***************************************************************************)
(* C8: each request that reaches the forwarding step has its own HTTP      *)
(* client, shared with no request in flight with it, and the client is     *)
(* closed on every path out of the request: once a request is answered no  *)
(* client acquired for it is open.                                         *)
(***************************************************************************)
C8_ClientPerRequest ==
  /\ \A r \in DOMAIN inflight : inflight[r].client \in clients
  /\ \A r1, r2 \in DOMAIN inflight :
       r1 # r2 => inflight[r1].client # inflight[r2].client
  /\ Called => out.client \in clients
  /\ Responded => out.client \notin clients
  /\ clients = {inflight[r].client : r \in DOMAIN inflight}

\* a request is answered after a transport failure, its client closed, while
\* another request is in flight with a client of its own
C8_Witness ==
  /\ Responded /\ out.reply.kind = "error" /\ out.client # 0
  /\ out.client \notin clients
  /\ \E r \in DOMAIN inflight :
       inflight[r].client \in clients /\ inflight[r].client # out.client

(***************************************************************************)
(* C9: on GET /patients/ and GET /search the outbound query holds exactly  *)
(* the parameters the caller supplied, with their values; an omitted       *)
(* parameter is not added.                                                 *)
(***************************************************************************)
C9_QueryForwarded ==
  Called /\ out.req.route \in {"list_patients", "search_user_medico"}
    => out.call.params = query_params(out.req)

(***************************************************************************)
(* C10: on every route a backend answer with a success status and a body   *)
(* that is not JSON is answered with the fallback object wrapping the raw  *)
(* text, not with a failure (read of the routes whose declared response    *)
(* admits that object: no response_model or dict, and a status that        *)
(* carries a body).                                                        *)
(***************************************************************************)
C10_NonJsonFallback ==
  Answered /\ out.reply.status < 400 /\ ~IsJson(out.reply.text)
           /\ out.req.route \in {"register", "root", "health_check"}
    => out.status < 400 /\ out.body = MessageBody(out.reply.text)

(***************************************************************************)
(* C11: on every route a backend answer with a status below 400 (201, 204, *)
(* ...) is never turned into an error response to the caller: the handler  *)
(* raises no HTTPException for it and the request does not fail (read of   *)
(* the answers whose body is JSON of the shape the route declares).        *)
(***************************************************************************)
C11_SuccessIsNoError ==
  Answered /\ out.reply.status < 400 /\ IsJson(out.reply.text)
           /\ FitsResponseModel(out.req.route, out.reply.text)
    => out.status < 400 /\ out.body.tag \notin {"detail", "plain"}

====
